---- MODULE Spec2Model ----
(***************************************************************************)
(* Streaming completion orchestration of the llama.cpp web UI:             *)
(*   - ChatService.handleStreamResponse (services/chat.ts): the stream     *)
(*     parser and the tool-call buffer;                                    *)
(*   - ChatStore.streamChatCompletion (stores/editor.svelte.ts): the round *)
(*     loop with its onChunk / onToolCalls / onComplete / onError          *)
(*     callbacks;                                                          *)
(*   - executeEditorTool (tools/editorTools.ts): the tool executor.        *)
(*                                                                         *)
(* Strings are sequences of one-character (or one-token) strings, so that  *)
(* concatenation, trimming and emptiness are computed, not assumed.        *)
(* JavaScript runs one job at a time: an external event (a stream record,  *)
(* the settling of a message-store call) is only delivered while the main  *)
(* coroutine is suspended at an await on such an event.                    *)
(***************************************************************************)
EXTENDS Integers, Sequences, FiniteSets, TLC

\* ------------------------------------------------------------------ bounds
\* Rounds of a turn in which the modelled service may still request tools
\* (specification Spec); later rounds only deliver text.
MaxCallRounds == 1
\* Data records the modelled service delivers in one turn (over all rounds).
MaxRecords == 3
\* Length of the argument string the service splits into fragments (SpecBuf).
MaxArgLen == 3
\* Highest positional index of a tool call in SpecBuf.
MaxIndex == 1
\* Records of one stream in SpecBuf.
MaxBufRecords == 4
\* SpecCap: rounds in which the service also sends text
MaxTextRounds == 1
\* Data records the service delivers in one turn of SpecCtx.
MaxCtxRecords == 2
\* Data records the service delivers in one turn of SpecAbort.
MaxAbortRecords == 2
\* Tool calls the service asks for in round 1 of SpecTool.
MaxToolRecords == 2
\* Data records the service delivers in the stream of SpecName.
MaxNameRecords == 3
\* Milliseconds that may pass during the turn of SpecTime.
MaxNow == 2
\* Rounds of SpecPrefix in which the service asks for a tool.
MaxPrefixCallRounds == 2

\* ------------------------------------------------------- program constants
MAX_TOOL_ROUNDS == 10

\* ------------------------------------------------------------ value shapes
NoId == <<"none", 0>>
ServiceId(n) == <<"svc", n>>
\* globalThis.crypto.randomUUID(): a value no other call of the page returns.
GeneratedId(n) == <<"gen", n>>

NoApiMsg == [role |-> "none", content |-> <<>>, tool_calls |-> <<>>,
             tool_call_id |-> NoId, name |-> <<>>, oid |-> 0]

NoDbMsg == [id |-> 0, role |-> "none", content |-> <<>>, toolCalls |-> <<>>,
            toolCallId |-> NoId, toolName |-> <<>>, timestamp |-> 0]

\* ------------------------------------------------------------ string helpers
IsBlank(s) == \A k \in 1..Len(s) : s[k] = " "

\* s.trim().length > 0
TrimNonEmpty(s) == ~IsBlank(s)

RECURSIVE StripThinking(_, _)
\* The text outside the reasoning segments; "<" opens one and ">" closes it.
StripThinking(s, inside) ==
    IF s = <<>> THEN <<>>
    ELSE IF Head(s) = "<" THEN StripThinking(Tail(s), TRUE)
    ELSE IF Head(s) = ">" THEN StripThinking(Tail(s), FALSE)
    ELSE IF inside THEN StripThinking(Tail(s), inside)
    ELSE <<Head(s)>> \o StripThinking(Tail(s), inside)

\* extractPartialThinking(text).remainingContent
remainingContent(s) == StripThinking(s, FALSE)

\* pt.remainingContent || streamedContent  (an empty string is falsy)
CleanText(s) == IF remainingContent(s) # <<>> THEN remainingContent(s) ELSE s

\* ------------------------------------------------------- tool-call buffer
\* A delta without an index goes to position 0: tc.index ?? 0
NoIndex == -1
IndexOf(tc) == IF tc.index = NoIndex THEN 0 ELSE tc.index

NewEntry(idx) == [index |-> idx, id |-> NoId, name |-> <<>>, arguments |-> <<>>]

HasEntry(buf, idx) == \E k \in 1..Len(buf) : buf[k].index = idx

\* toolCallBuffer.get(idx), created on first use (a Map keeps insertion order)
EnsureEntry(buf, idx) == IF HasEntry(buf, idx) THEN buf ELSE Append(buf, NewEntry(idx))

MergeArguments_Replace(old, frag) == frag
\* entry.function.arguments += tc.function.arguments
MergeArguments(old, frag) == old \o frag

\* entry.function.name = tc.function.name
MergeName(old, frag) == frag

\* One element of delta.tool_calls merged into the buffer.
MergeDelta(buf, tc) ==
    LET idx == IndexOf(tc)
        b == EnsureEntry(buf, idx)
    IN [k \in 1..Len(b) |->
          IF b[k].index # idx THEN b[k]
          ELSE [index |-> idx,
                id |-> IF tc.id # NoId THEN tc.id ELSE b[k].id,
                name |-> IF tc.name # <<>> THEN MergeName(b[k].name, tc.name)
                         ELSE b[k].name,
                arguments |-> IF tc.arguments # <<>>
                              THEN MergeArguments(b[k].arguments, tc.arguments)
                              ELSE b[k].arguments]]

RECURSIVE MergeAll(_, _)
\* for (const tc of delta.tool_calls) ...
MergeAll(buf, tcs) ==
    IF tcs = <<>> THEN buf ELSE MergeAll(MergeDelta(buf, Head(tcs)), Tail(tcs))

RECURSIVE SelectEntries(_, _)
SelectEntries(buf, idxs) ==
    IF idxs = {} THEN <<>>
    ELSE LET m == CHOOSE x \in idxs : \A y \in idxs : x <= y
             e == CHOOSE k \in 1..Len(buf) : buf[k].index = m
         IN <<buf[e]>> \o SelectEntries(buf, idxs \ {m})

SortByIndex_Unsorted(buf) == buf
\* Array.from(toolCallBuffer.entries()).sort((a, b) => a[0] - b[0])
SortByIndex(buf) == SelectEntries(buf, {buf[k].index : k \in 1..Len(buf)})

KeepCall_All(e) == TRUE
\* .filter((c) => c.function?.name)
KeepCall(e) == e.name # <<>>

ToCall(e) == [id |-> e.id, name |-> e.name, arguments |-> e.arguments]

RECURSIVE FilterCalls(_)
FilterCalls(es) ==
    IF es = <<>> THEN <<>>
    ELSE (IF KeepCall(Head(es)) THEN <<ToCall(Head(es))>> ELSE <<>>)
         \o FilterCalls(Tail(es))

\* The list flushToolCalls hands to onToolCalls (empty: the callback is not called).
FlushCalls(buf) == FilterCalls(SortByIndex(buf))

AfterFlush_Keep(buf) == buf
\* toolCallBuffer.clear()
AfterFlush(buf) == <<>>

\* ------------------------------------------------------------------ state
VARIABLES
    \* ChatStore fields
    activeMessages, currentResponse, isLoading, maxContextError,
    \* how often the onError callback of the caller has been invoked
    onErrorCalls,
    \* EditorStore.currentCode
    currentCode,
    \* Date.now(), in milliseconds since the turn began
    now,
    \* streamChatCompletion: position, and the locals declared before the loop
    pc, round, streamedContent, historyTail, didFinalComplete,
    \* the onComplete parameter of streamChatCompletion: whether the caller
    \* passed one, and how often it has been invoked
    onCompleteGiven, onCompleteCalls,
    \* streamChatCompletion: the locals of the current loop iteration
    roundAssistantMsg, createdRoundAssistantMsg, roundHadText,
    assistantToolCallDbMsg, toolApiMsgs, i,
    \* locals of a loop iteration that its callbacks still read after the
    \* iteration ended: one binding per round
    assistantToolCallApiMsg, collectedToolCalls,
    \* handleStreamResponse locals
    toolCallBuffer, hasReceivedData, sawToolCalls, fullResponse,
    \* message store: stored rows, calls not yet settled, id source
    dbMessages, dbPending, nextId,
    \* remote service: requests received, data records it still delivers,
    \* the finish_reason the current stream has carried ("none": not yet), and
    \* (SpecBuf) the argument strings it is sending in fragments
    requests, recordsLeft, finishSent, svcArgs, svcSent,
    \* the message list of the request sent last (empty: none sent yet)
    outgoing,
    \* ChatService.abortController ("null" or "live"), whether the signal of the
    \* response being read has been aborted, and whether the user has asked
    \* to stop the generation
    abortController, streamAborted, stopRequested

storeVars == <<activeMessages, currentResponse, isLoading, maxContextError, onErrorCalls>>
loopVars == <<pc, round, streamedContent, historyTail, didFinalComplete,
              onCompleteGiven, onCompleteCalls,
              roundAssistantMsg, createdRoundAssistantMsg, roundHadText,
              assistantToolCallDbMsg, toolApiMsgs, i,
              assistantToolCallApiMsg, collectedToolCalls>>
parserVars == <<toolCallBuffer, hasReceivedData, sawToolCalls, fullResponse>>
dbVars == <<dbMessages, dbPending, nextId>>
svcVars == <<requests, outgoing, recordsLeft, finishSent, svcArgs, svcSent>>
abortVars == <<abortController, streamAborted, stopRequested>>
vars == <<storeVars, currentCode, now, loopVars, parserVars, dbVars, svcVars, abortVars>>

\* ------------------------------------------------------------ the turn
\* sendMessage has stored the user message and the empty assistant message
\* and calls streamChatCompletion(allMessages, assistantMessage, undefined, onError).
UserMsgId == 1
AssistantMsgId == 2

UserDbMsg == [NoDbMsg EXCEPT !.id = UserMsgId, !.role = "user", !.content = <<"q">>]
AssistantDbMsg == [NoDbMsg EXCEPT !.id = AssistantMsgId, !.role = "assistant"]

\* ChatService.convertMessageToChatServiceData on the user message
allMessages == << [NoApiMsg EXCEPT !.role = "user", !.content = <<"q">>] >>

\* ---------------------------------------------------- message-store calls
\* A call of DatabaseService that has been issued and has not settled.
\* owner: the coroutine that awaits it ("main", "onToolCalls", "onComplete")
\* or "detached" for a call whose promise only gets a .catch handler.
DbCall(op, owner, r, mid, draft, text, api) ==
    [op |-> op, owner |-> owner, round |-> r, mid |-> mid, draft |-> draft,
     text |-> text, api |-> api]

RemoveById(msgs, id) == SelectSeq(msgs, LAMBDA m : m.id # id)

SetContent(msgs, id, c) ==
    [k \in 1..Len(msgs) |-> IF msgs[k].id = id THEN [msgs[k] EXCEPT !.content = c]
                                               ELSE msgs[k]]

\* ------------------------------------------- callbacks of streamChatCompletion
\* The state the callbacks read and write, as one value, so that the
\* callbacks one stream record triggers can be applied one after the other.
CbState ==
    [streamedContent |-> streamedContent, currentResponse |-> currentResponse,
     roundHadText |-> roundHadText, activeMessages |-> activeMessages,
     collectedToolCalls |-> collectedToolCalls,
     assistantToolCallApiMsg |-> assistantToolCallApiMsg,
     dbPending |-> dbPending, nextId |-> nextId, isLoading |-> isLoading,
     maxContextError |-> maxContextError, onErrorCalls |-> onErrorCalls]

\* onChunk (editor.svelte.ts 251-272)
OnChunk(o, chunk) ==
    LET sc == o.streamedContent \o chunk
        clean == CleanText(sc)
    IN [o EXCEPT !.streamedContent = sc,
                 !.currentResponse = sc,
                 !.roundHadText = o.roundHadText \/ TrimNonEmpty(clean),
                 !.activeMessages = SetContent(o.activeMessages, roundAssistantMsg, clean)]

\* Number of calls among the first k that come without an id.
RECURSIVE MissingIds(_, _)
MissingIds(calls, k) ==
    IF k = 0 THEN 0
    ELSE MissingIds(calls, k - 1) + (IF calls[k].id = NoId THEN 1 ELSE 0)

\* c.id = crypto.randomUUID(): a fresh value for every call without an id
FallbackId(calls, k, base) == GeneratedId(base + MissingIds(calls, k) - 1)

WithIds_NoFallback(calls, base) == calls
\* for (const c of calls) if (!c.id) c.id = ...
WithIds(calls, base) ==
    [k \in 1..Len(calls) |->
        IF calls[k].id = NoId THEN [calls[k] EXCEPT !.id = FallbackId(calls, k, base)]
        ELSE calls[k]]

\* onToolCalls up to its first await (editor.svelte.ts 274-323): the calls are
\* collected, the API-shaped request message is built, and the write of the
\* record that holds the calls is issued.
OnToolCalls(o, calls) ==
    LET cs == WithIds(calls, o.nextId)
        n == MissingIds(calls, Len(calls))
        api == [NoApiMsg EXCEPT !.role = "assistant", !.tool_calls = cs,
                                !.oid = o.nextId + n]
        draft == [NoDbMsg EXCEPT !.role = "assistant", !.toolCalls = cs,
                                 !.timestamp = now]
    IN [o EXCEPT !.collectedToolCalls[round] = @ \o cs,
                 !.assistantToolCallApiMsg[round] = api,
                 !.dbPending = @ \cup {DbCall("add", "onToolCalls", round, 0, draft, <<>>, api)},
                 !.nextId = o.nextId + n + 1]

\* onComplete up to its first await (editor.svelte.ts 338-354)
OnComplete(o) ==
    LET finalClean == CleanText(o.streamedContent)
    IN IF o.roundHadText /\ roundAssistantMsg # 0
       THEN [o EXCEPT !.dbPending = @ \cup
                {DbCall("update", "onComplete", round, roundAssistantMsg, NoDbMsg,
                        finalClean, NoApiMsg)}]
       ELSE o

\* onError for a ContextError (editor.svelte.ts 386-412), followed by the
\* error callback sendMessage passed (editor.svelte.ts 623-638).
OnContextError(o) ==
    LET drop == createdRoundAssistantMsg /\ roundAssistantMsg # 0 /\ ~o.roundHadText
        am1 == IF drop THEN RemoveById(o.activeMessages, roundAssistantMsg)
               ELSE o.activeMessages
        p1 == IF drop
              THEN {DbCall("delete", "detached", round, roundAssistantMsg, NoDbMsg, <<>>, NoApiMsg)}
              ELSE {}
        hasUser == \E k \in 1..Len(am1) : am1[k].id = UserMsgId
        p2 == IF hasUser
              THEN {DbCall("delete", "detached", round, UserMsgId, NoDbMsg, <<>>, NoApiMsg)}
              ELSE {}
    IN [o EXCEPT !.isLoading = FALSE,
                 !.currentResponse = <<>>,
                 !.activeMessages = RemoveById(am1, UserMsgId),
                 !.dbPending = @ \cup p1 \cup p2,
                 !.maxContextError = TRUE,
                 !.onErrorCalls = o.onErrorCalls + 1]

SetCbState(o) ==
    /\ streamedContent' = o.streamedContent
    /\ currentResponse' = o.currentResponse
    /\ roundHadText' = o.roundHadText
    /\ activeMessages' = o.activeMessages
    /\ collectedToolCalls' = o.collectedToolCalls
    /\ assistantToolCallApiMsg' = o.assistantToolCallApiMsg
    /\ dbPending' = o.dbPending
    /\ nextId' = o.nextId
    /\ isLoading' = o.isLoading
    /\ maxContextError' = o.maxContextError
    /\ onErrorCalls' = o.onErrorCalls

\* --------------------------------------------------- handleStreamResponse
NothingReceived_ContentOnly(received, sawCalls) == ~received
\* if (!hasReceivedData && !sawToolCalls): the stream is taken for a context error
NothingReceived(received, sawCalls) == ~received /\ ~sawCalls

\* flushToolCalls (chat.ts 250-258): the non-empty list goes to onToolCalls.
FlushInto(o, buf) ==
    IF FlushCalls(buf) # <<>> THEN OnToolCalls(o, FlushCalls(buf)) ELSE o

\* One "data: {json}" line (chat.ts 286-333): the tool-call deltas are merged,
\* then the content goes to onChunk, then finish_reason "tool_calls" flushes.
StreamData(tcs, content, finish) ==
    /\ pc = "streaming"
    /\ LET buf1 == MergeAll(toolCallBuffer, tcs)
           o1 == IF content # <<>> THEN OnChunk(CbState, content) ELSE CbState
           o2 == IF finish = "tool_calls" THEN FlushInto(o1, buf1) ELSE o1
       IN /\ toolCallBuffer' = IF finish = "tool_calls" THEN AfterFlush(buf1) ELSE buf1
          /\ SetCbState(o2)
    /\ sawToolCalls' = (sawToolCalls \/ tcs # <<>>)
    /\ hasReceivedData' = (hasReceivedData \/ content # <<>>)
    /\ fullResponse' = fullResponse \o content
    /\ UNCHANGED <<currentCode, pc, round, historyTail, didFinalComplete, onCompleteGiven, now, onCompleteCalls,
                   roundAssistantMsg, createdRoundAssistantMsg,
                   assistantToolCallDbMsg, toolApiMsgs, i, dbMessages, requests, outgoing, abortVars>>

StreamMalformed_DropsBuffer ==
    /\ pc = "streaming"
    /\ toolCallBuffer' = <<>>
    /\ UNCHANGED <<storeVars, currentCode, loopVars, now, hasReceivedData, sawToolCalls,
                   fullResponse, dbVars, requests, outgoing, abortVars>>

\* A "data: " line whose payload JSON.parse rejects (chat.ts 334-336).
StreamMalformed ==
    /\ pc = "streaming"
    /\ UNCHANGED <<storeVars, currentCode, loopVars, now, parserVars, dbVars, requests, outgoing, abortVars>>

\* The "data: [DONE]" line (chat.ts 271-284).
StreamDone ==
    /\ pc = "streaming"
    /\ LET o1 == FlushInto(CbState, toolCallBuffer)
           o2 == IF NothingReceived(hasReceivedData, sawToolCalls) THEN OnContextError(o1)
                 ELSE OnComplete(o1)
       IN SetCbState(o2)
    /\ toolCallBuffer' = AfterFlush(toolCallBuffer)
    /\ pc' = "postStream"
    /\ UNCHANGED <<currentCode, round, historyTail, didFinalComplete, onCompleteGiven, now, onCompleteCalls,
                   roundAssistantMsg, createdRoundAssistantMsg,
                   assistantToolCallDbMsg, toolApiMsgs, i,
                   hasReceivedData, sawToolCalls, fullResponse,
                   dbMessages, svcVars, abortVars>>

StreamEnd_NoFlush ==
    /\ pc = "streaming"
    /\ LET o2 == IF NothingReceived(hasReceivedData, sawToolCalls)
                 THEN OnContextError(CbState)
                 ELSE OnComplete(CbState)
       IN SetCbState(o2)
    /\ toolCallBuffer' = toolCallBuffer
    /\ pc' = "postStream"
    /\ UNCHANGED <<currentCode, round, historyTail, didFinalComplete, onCompleteGiven, now, onCompleteCalls,
                   roundAssistantMsg, createdRoundAssistantMsg,
                   assistantToolCallDbMsg, toolApiMsgs, i,
                   hasReceivedData, sawToolCalls, fullResponse,
                   dbMessages, svcVars, abortVars>>

\* reader.read() reports done without a [DONE] line (chat.ts 263, 340-352).
StreamEnd ==
    /\ pc = "streaming"
    /\ LET o2 == IF NothingReceived(hasReceivedData, sawToolCalls)
                 THEN OnContextError(CbState)
                 ELSE OnComplete(FlushInto(CbState, toolCallBuffer))
       IN SetCbState(o2)
    /\ toolCallBuffer' = IF NothingReceived(hasReceivedData, sawToolCalls)
                         THEN toolCallBuffer
                         ELSE AfterFlush(toolCallBuffer)
    /\ pc' = "postStream"
    /\ UNCHANGED <<currentCode, round, historyTail, didFinalComplete, onCompleteGiven, now, onCompleteCalls,
                   roundAssistantMsg, createdRoundAssistantMsg,
                   assistantToolCallDbMsg, toolApiMsgs, i,
                   hasReceivedData, sawToolCalls, fullResponse,
                   dbMessages, svcVars, abortVars>>

\* ------------------------------------------------------ executeEditorTool
\* editorStore.currentCode after setCode(undefined)
UndefinedCode == <<"undefined">>

FieldTokens == {"c", "f"}

\* Argument strings are token sequences: "{" fields "}" is an object, where
\* "c" stands for "code":"x" and "f" for "find":"x","replace":"y"; "n" is null.
IsObjectText(s) ==
    /\ Len(s) >= 2
    /\ s[1] = "{"
    /\ s[Len(s)] = "}"
    /\ \A k \in 2..(Len(s) - 1) : s[k] \in FieldTokens

\* JSON.parse(argStr) succeeds
ParsesAsJson(s) == IsObjectText(s) \/ s = <<"n">>

Fields(s) == IF IsObjectText(s) THEN {s[k] : k \in 2..(Len(s) - 1)} ELSE {}

Registered == {<<"get_editor_code">>, <<"set_editor_code">>, <<"replace_in_editor_code">>}

ToolMsg_NoContent(call, content) ==
    [NoApiMsg EXCEPT !.role = "tool", !.tool_call_id = call.id, !.name = call.name]

ToolMsg(call, content) ==
    [NoApiMsg EXCEPT !.role = "tool", !.tool_call_id = call.id,
                     !.name = call.name, !.content = content]

ReplaceTokens(src) == [k \in 1..Len(src) |-> IF src[k] = "x" THEN "y" ELSE src[k]]

executeEditorTool_NameFirst(call, code) ==
    LET argStr == call.arguments
        isNull == argStr = <<"n">>
        flds == Fields(argStr)
        done(content, c2) == [threw |-> FALSE, msg |-> ToolMsg(call, content), code |-> c2]
        fail(c2) == [threw |-> TRUE, msg |-> NoApiMsg, code |-> c2]
    IN IF call.name \notin Registered
       THEN done(<<"{", "error:Unknown tool: ">> \o call.name \o <<"}">>, code)
       ELSE IF argStr # <<>> /\ ~ParsesAsJson(argStr)
       THEN done(<<"{", "error:Invalid JSON arguments", "raw:">> \o argStr \o <<"}">>, code)
       ELSE IF call.name = <<"get_editor_code">>
       THEN done(code, code)
       ELSE IF call.name = <<"set_editor_code">>
       THEN (IF isNull THEN fail(code)
             ELSE IF "c" \in flds THEN done(<<"{", "status:ok", "length", "}">>, <<"x">>)
             ELSE fail(UndefinedCode))
       ELSE (IF isNull \/ "f" \notin flds THEN fail(code)
             ELSE done(<<"{", "status:ok", "replacements", "length", "}">>,
                       ReplaceTokens(IF code = UndefinedCode THEN <<>> ELSE code)))

\* executeEditorTool(call) with the editor holding `code`:
\* threw: the returned promise rejects; code: the editor afterwards.
executeEditorTool(call, code) ==
    LET argStr == call.arguments
        isNull == argStr = <<"n">>
        flds == Fields(argStr)
        done(content, c2) == [threw |-> FALSE, msg |-> ToolMsg(call, content), code |-> c2]
        fail(c2) == [threw |-> TRUE, msg |-> NoApiMsg, code |-> c2]
    IN IF argStr # <<>> /\ ~ParsesAsJson(argStr)
       THEN done(<<"{", "error:Invalid JSON arguments", "raw:">> \o argStr \o <<"}">>, code)
       ELSE IF call.name \notin Registered
       THEN done(<<"{", "error:Unknown tool: ">> \o call.name \o <<"}">>, code)
       ELSE IF call.name = <<"get_editor_code">>
       THEN done(code, code)
       ELSE IF call.name = <<"set_editor_code">>
       THEN (IF isNull THEN fail(code)
             ELSE IF "c" \in flds THEN done(<<"{", "status:ok", "length", "}">>, <<"x">>)
             ELSE fail(UndefinedCode))
       ELSE (IF isNull \/ "f" \notin flds THEN fail(code)
             ELSE done(<<"{", "status:ok", "replacements", "length", "}">>,
                       ReplaceTokens(IF code = UndefinedCode THEN <<>> ELSE code)))

\* --------------------------------------------------- streamChatCompletion
\* The main coroutine is suspended on an external event (the fetch, the
\* stream, a message-store call) or has ended; only then can another
\* external event be delivered.
Suspended == pc \in {"streaming", "awaitPlaceholder", "awaitDelete",
                     "awaitFinishDelete", "awaitToolPersist", "returned", "threw"}

\* const outgoing = [...allMessages, ...historyTail] and
\* chatService.sendChatCompletion(outgoing, ...) (editor.svelte.ts 241-246):
\* ChatService.sendMessage installs a new AbortController (chat.ts 77-79), the
\* request leaves and handleStreamResponse starts with fresh locals.
SendRequest ==
    /\ abortController' = "live"
    /\ streamAborted' = FALSE
    /\ UNCHANGED stopRequested
    /\ requests' = requests + 1
    /\ outgoing' = allMessages \o historyTail
    /\ finishSent' = "none"
    /\ toolCallBuffer' = <<>>
    /\ hasReceivedData' = FALSE
    /\ sawToolCalls' = FALSE
    /\ fullResponse' = <<>>
    /\ pc' = "streaming"

CapReached_OffByOne(r) == r > MAX_TOOL_ROUNDS + 1
\* if (round > MAX_TOOL_ROUNDS) break
CapReached(r) == r > MAX_TOOL_ROUNDS

\* Top of the while loop (editor.svelte.ts 198-235).
LoopTop ==
    /\ pc = "loopTop"
    /\ round' = round + 1
    /\ IF CapReached(round + 1)
       THEN /\ pc' = "returned"
            /\ UNCHANGED <<streamedContent, roundAssistantMsg, createdRoundAssistantMsg,
                           roundHadText, assistantToolCallDbMsg, parserVars, dbPending,
                           requests, outgoing, abortVars, finishSent>>
       ELSE /\ streamedContent' = <<>>
            /\ createdRoundAssistantMsg' = FALSE
            /\ roundHadText' = FALSE
            /\ assistantToolCallDbMsg' = NoDbMsg
            /\ IF round + 1 = 1
               THEN /\ roundAssistantMsg' = AssistantMsgId
                    /\ SendRequest
                    /\ UNCHANGED dbPending
               ELSE /\ roundAssistantMsg' = 0
                    /\ dbPending' = dbPending \cup
                         {DbCall("add", "main", round + 1, 0,
                                 [NoDbMsg EXCEPT !.role = "assistant", !.timestamp = now],
                                 <<>>, NoApiMsg)}
                    /\ pc' = "awaitPlaceholder"
                    /\ UNCHANGED <<parserVars, requests, outgoing, abortVars, finishSent>>
    /\ UNCHANGED <<storeVars, currentCode, historyTail, didFinalComplete, onCompleteGiven, now, onCompleteCalls, toolApiMsgs, i,
                   assistantToolCallApiMsg, collectedToolCalls, dbMessages, nextId,
                   recordsLeft, svcArgs, svcSent>>

\* await DatabaseService.addMessage(placeholder) settles (editor.svelte.ts 221-234).
\* A rejection leaves streamChatCompletion and reaches the catch of sendMessage
\* (editor.svelte.ts 640-661).
SettlePlaceholder(c, ok) ==
    /\ pc = "awaitPlaceholder"
    /\ c \in dbPending
    /\ c.owner = "main"
    /\ dbPending' = dbPending \ {c}
    /\ IF ok
       THEN LET m == [c.draft EXCEPT !.id = nextId]
            IN /\ dbMessages' = dbMessages \cup {m}
               /\ nextId' = nextId + 1
               /\ activeMessages' = Append(activeMessages, m)
               /\ roundAssistantMsg' = m.id
               /\ createdRoundAssistantMsg' = TRUE
               /\ SendRequest
               /\ UNCHANGED isLoading
       ELSE /\ pc' = "threw"
            /\ isLoading' = FALSE
            /\ UNCHANGED <<dbMessages, nextId, activeMessages, roundAssistantMsg,
                           createdRoundAssistantMsg, parserVars, requests, outgoing, abortVars, finishSent>>
    /\ UNCHANGED <<currentResponse, maxContextError, onErrorCalls, currentCode, round, streamedContent,
                   historyTail, didFinalComplete, onCompleteGiven, now, onCompleteCalls, roundHadText, assistantToolCallDbMsg,
                   toolApiMsgs, i, assistantToolCallApiMsg, collectedToolCalls,
                   recordsLeft, svcArgs, svcSent>>

Finish_SkipsCallback ==
    /\ UNCHANGED <<didFinalComplete, onCompleteCalls>>
    /\ isLoading' = FALSE
    /\ currentResponse' = <<>>
    /\ pc' = "returned"

\* The finish path (editor.svelte.ts 445-452); the onComplete of the caller,
\* if there is one, is taken to return.
Finish ==
    /\ IF ~didFinalComplete /\ onCompleteGiven
       THEN /\ didFinalComplete' = TRUE
            /\ onCompleteCalls' = onCompleteCalls + 1
       ELSE UNCHANGED <<didFinalComplete, onCompleteCalls>>
    /\ isLoading' = FALSE
    /\ currentResponse' = <<>>
    /\ pc' = "returned"

\* After the stream (editor.svelte.ts 432-470): finish, or prepare the tools.
PostStream ==
    /\ pc = "postStream"
    /\ LET calls == collectedToolCalls[round]
           roundHasNonEmptyText == roundHadText /\ TrimNonEmpty(CleanText(streamedContent))
           drop == /\ createdRoundAssistantMsg
                   /\ roundAssistantMsg # 0
                   /\ IF calls = <<>> THEN ~roundHadText ELSE ~roundHasNonEmptyText
       IN IF drop
          THEN /\ activeMessages' = RemoveById(activeMessages, roundAssistantMsg)
               /\ dbPending' = dbPending \cup
                    {DbCall("delete", "main", round, roundAssistantMsg, NoDbMsg, <<>>, NoApiMsg)}
               /\ pc' = IF calls = <<>> THEN "awaitFinishDelete" ELSE "awaitDelete"
               /\ UNCHANGED <<isLoading, currentResponse, didFinalComplete, onCompleteCalls>>
          ELSE /\ IF calls = <<>> THEN Finish
                  ELSE pc' = "execTool" /\ UNCHANGED <<isLoading, currentResponse, didFinalComplete, onCompleteCalls>>
               /\ UNCHANGED <<activeMessages, dbPending>>
    /\ toolApiMsgs' = <<>>
    /\ i' = 1
    /\ UNCHANGED <<maxContextError, onErrorCalls, currentCode, round, streamedContent, historyTail,
                   onCompleteGiven, now, roundAssistantMsg, createdRoundAssistantMsg,
                   roundHadText, assistantToolCallDbMsg, assistantToolCallApiMsg,
                   collectedToolCalls, parserVars, dbMessages, nextId, svcVars, abortVars>>

\* What a settled store call leaves in the store.
ApplyDb(rows, c, ok, id) ==
    IF ~ok THEN rows
    ELSE IF c.op = "add" THEN rows \cup {[c.draft EXCEPT !.id = id]}
    ELSE IF c.op = "update"
    THEN {IF m.id = c.mid THEN [m EXCEPT !.content = c.text] ELSE m : m \in rows}
    ELSE {m \in rows : m.id # c.mid}

\* await DatabaseService.deleteMessage(placeholder).catch(console.error) settles
\* (editor.svelte.ts 442 and 469).
SettleDelete(c, ok) ==
    /\ pc \in {"awaitFinishDelete", "awaitDelete"}
    /\ c \in dbPending
    /\ c.owner = "main"
    /\ dbPending' = dbPending \ {c}
    /\ dbMessages' = ApplyDb(dbMessages, c, ok, 0)
    /\ IF pc = "awaitFinishDelete" THEN Finish
       ELSE pc' = "execTool" /\ UNCHANGED <<isLoading, currentResponse, didFinalComplete, onCompleteCalls>>
    /\ UNCHANGED <<activeMessages, maxContextError, onErrorCalls, currentCode, round, streamedContent,
                   historyTail, onCompleteGiven, now, roundAssistantMsg,
                   createdRoundAssistantMsg, roundHadText, assistantToolCallDbMsg,
                   toolApiMsgs, i, assistantToolCallApiMsg, collectedToolCalls,
                   parserVars, nextId, svcVars, abortVars>>

\* if (!toolApiMsg.tool_call_id) ...; if (!toolApiMsg.name) ... (editor.svelte.ts 498-504)
Linked(msg, call) ==
    [msg EXCEPT !.tool_call_id = IF msg.tool_call_id = NoId THEN call.id ELSE @,
                !.name = IF msg.name = <<>> THEN call.name ELSE @]

\* (assistantToolCallDbMsg?.timestamp ?? Date.now()) + (i + 1) with the
\* 0-based i of the code; k is the 1-based position of the call.
ResultTimestamp(k) ==
    (IF assistantToolCallDbMsg # NoDbMsg THEN assistantToolCallDbMsg.timestamp ELSE now) + k

ExecTool_OutOfOrder ==
    /\ pc = "execTool"
    /\ LET call == collectedToolCalls[round][Len(collectedToolCalls[round]) + 1 - i]
           res == executeEditorTool(call, currentCode)
           msg == Linked(res.msg, call)
       IN /\ currentCode' = res.code
          /\ IF res.threw
             THEN /\ pc' = "threw"
                  /\ isLoading' = FALSE
                  /\ UNCHANGED <<toolApiMsgs, dbPending>>
             ELSE /\ toolApiMsgs' = Append(toolApiMsgs, msg)
                  /\ dbPending' = dbPending \cup
                       {DbCall("add", "main", round, 0,
                               [NoDbMsg EXCEPT !.role = "tool", !.content = msg.content,
                                               !.toolCallId = msg.tool_call_id,
                                               !.toolName = msg.name,
                                               !.timestamp = ResultTimestamp(i)],
                               <<>>, NoApiMsg)}
                  /\ pc' = "awaitToolPersist"
                  /\ UNCHANGED isLoading
    /\ UNCHANGED <<activeMessages, currentResponse, maxContextError, onErrorCalls, round,
                   streamedContent, historyTail, didFinalComplete, onCompleteGiven, now, onCompleteCalls, roundAssistantMsg,
                   createdRoundAssistantMsg, roundHadText, assistantToolCallDbMsg, i,
                   assistantToolCallApiMsg, collectedToolCalls, parserVars, dbMessages,
                   nextId, svcVars, abortVars>>

\* One iteration of the tool loop up to the write of the result
\* (editor.svelte.ts 474-527). A rejection of executeEditorTool leaves
\* streamChatCompletion and reaches the catch of sendMessage.
ExecTool ==
    /\ pc = "execTool"
    /\ LET call == collectedToolCalls[round][i]
           res == executeEditorTool(call, currentCode)
           msg == Linked(res.msg, call)
       IN /\ currentCode' = res.code
          /\ IF res.threw
             THEN /\ pc' = "threw"
                  /\ isLoading' = FALSE
                  /\ UNCHANGED <<toolApiMsgs, dbPending>>
             ELSE /\ toolApiMsgs' = Append(toolApiMsgs, msg)
                  /\ dbPending' = dbPending \cup
                       {DbCall("add", "main", round, 0,
                               [NoDbMsg EXCEPT !.role = "tool", !.content = msg.content,
                                               !.toolCallId = msg.tool_call_id,
                                               !.toolName = msg.name,
                                               !.timestamp = ResultTimestamp(i)],
                               <<>>, NoApiMsg)}
                  /\ pc' = "awaitToolPersist"
                  /\ UNCHANGED isLoading
    /\ UNCHANGED <<activeMessages, currentResponse, maxContextError, onErrorCalls, round,
                   streamedContent, historyTail, didFinalComplete, onCompleteGiven, now, onCompleteCalls, roundAssistantMsg,
                   createdRoundAssistantMsg, roundHadText, assistantToolCallDbMsg, i,
                   assistantToolCallApiMsg, collectedToolCalls, parserVars, dbMessages,
                   nextId, svcVars, abortVars>>

LastCall_Always(k, calls) == TRUE
\* for (let i = 0; i < collectedToolCalls.length; i++): the loop ends after the last call
LastCall(k, calls) == k = Len(calls)

SettleToolResult_FailStops(c, ok) ==
    /\ pc = "awaitToolPersist"
    /\ c \in dbPending
    /\ c.owner = "main"
    /\ dbPending' = dbPending \ {c}
    /\ dbMessages' = ApplyDb(dbMessages, c, ok, nextId)
    /\ nextId' = IF ok THEN nextId + 1 ELSE nextId
    /\ activeMessages' = IF ok THEN Append(activeMessages, [c.draft EXCEPT !.id = nextId])
                         ELSE activeMessages
    /\ IF ~ok
       THEN /\ pc' = "threw"
            /\ UNCHANGED <<i, historyTail>>
       ELSE IF LastCall(i, collectedToolCalls[round])
       THEN /\ historyTail' = historyTail \o toolApiMsgs
            /\ pc' = "loopTop"
            /\ UNCHANGED i
       ELSE /\ i' = i + 1
            /\ pc' = "execTool"
            /\ UNCHANGED historyTail
    /\ UNCHANGED <<currentResponse, isLoading, maxContextError, onErrorCalls, currentCode, round,
                   streamedContent, didFinalComplete, onCompleteGiven, now, onCompleteCalls, roundAssistantMsg,
                   createdRoundAssistantMsg, roundHadText, assistantToolCallDbMsg,
                   toolApiMsgs, assistantToolCallApiMsg, collectedToolCalls,
                   parserVars, svcVars, abortVars>>

\* await DatabaseService.addMessage(dbToolMsg) settles, inside try/catch
\* (editor.svelte.ts 527-541); after the last call the results join historyTail.
SettleToolResult(c, ok) ==
    /\ pc = "awaitToolPersist"
    /\ c \in dbPending
    /\ c.owner = "main"
    /\ dbPending' = dbPending \ {c}
    /\ dbMessages' = ApplyDb(dbMessages, c, ok, nextId)
    /\ nextId' = IF ok THEN nextId + 1 ELSE nextId
    /\ activeMessages' = IF ok THEN Append(activeMessages, [c.draft EXCEPT !.id = nextId])
                         ELSE activeMessages
    /\ IF LastCall(i, collectedToolCalls[round])
       THEN /\ historyTail' = historyTail \o toolApiMsgs
            /\ pc' = "loopTop"
            /\ UNCHANGED i
       ELSE /\ i' = i + 1
            /\ pc' = "execTool"
            /\ UNCHANGED historyTail
    /\ UNCHANGED <<currentResponse, isLoading, maxContextError, onErrorCalls, currentCode, round,
                   streamedContent, didFinalComplete, onCompleteGiven, now, onCompleteCalls, roundAssistantMsg,
                   createdRoundAssistantMsg, roundHadText, assistantToolCallDbMsg,
                   toolApiMsgs, assistantToolCallApiMsg, collectedToolCalls,
                   parserVars, svcVars, abortVars>>

\* historyTail.lastIndexOf(msg): messages are compared by object identity.
LastIndexOf(tail, msg) ==
    LET hits == {k \in 1..Len(tail) : tail[k].oid = msg.oid /\ msg.oid # 0}
    IN IF hits = {} THEN 0 ELSE CHOOSE k \in hits : \A j \in hits : j <= k

\* historyTail.splice(idx, 0, msg)
InsertBefore(tail, idx, msg) ==
    SubSeq(tail, 1, idx - 1) \o <<msg>> \o SubSeq(tail, idx, Len(tail))

TextMsg(text) == [NoApiMsg EXCEPT !.role = "assistant", !.content = text]

\* The rest of onToolCalls, after await DatabaseService.addMessage(dbMsgPayload)
\* (editor.svelte.ts 323-335): on success the stored record joins the message
\* list and the request message joins historyTail; a rejection is only logged.
SettleToolCallRecord(c, ok) ==
    /\ Suspended
    /\ c \in dbPending
    /\ c.owner = "onToolCalls"
    /\ dbPending' = dbPending \ {c}
    /\ dbMessages' = ApplyDb(dbMessages, c, ok, nextId)
    /\ nextId' = IF ok THEN nextId + 1 ELSE nextId
    /\ activeMessages' = IF ok THEN Append(activeMessages, [c.draft EXCEPT !.id = nextId])
                         ELSE activeMessages
    /\ assistantToolCallDbMsg' = IF ok /\ c.round = round
                                 THEN [c.draft EXCEPT !.id = nextId]
                                 ELSE assistantToolCallDbMsg
    /\ historyTail' = IF ok THEN Append(historyTail, assistantToolCallApiMsg[c.round])
                      ELSE historyTail
    /\ UNCHANGED <<currentResponse, isLoading, maxContextError, onErrorCalls, currentCode, pc, round,
                   streamedContent, didFinalComplete, onCompleteGiven, now, onCompleteCalls, roundAssistantMsg,
                   createdRoundAssistantMsg, roundHadText, toolApiMsgs, i,
                   assistantToolCallApiMsg, collectedToolCalls, parserVars, svcVars, abortVars>>

\* The rest of onComplete, after await DatabaseService.updateMessage(...)
\* (editor.svelte.ts 351-374): the round's text is put before the tool-call
\* request of the round when that is in historyTail, and at the end otherwise.
\* A rejection ends the callback.
SettleRoundText(c, ok) ==
    /\ Suspended
    /\ c \in dbPending
    /\ c.owner = "onComplete"
    /\ dbPending' = dbPending \ {c}
    /\ dbMessages' = ApplyDb(dbMessages, c, ok, 0)
    /\ LET api == assistantToolCallApiMsg[c.round]
           idx == LastIndexOf(historyTail, api)
       IN historyTail' =
            IF ok /\ TrimNonEmpty(c.text)
            THEN (IF api # NoApiMsg /\ idx >= 1
                  THEN InsertBefore(historyTail, idx, TextMsg(c.text))
                  ELSE Append(historyTail, TextMsg(c.text)))
            ELSE historyTail
    /\ UNCHANGED <<storeVars, currentCode, pc, round, streamedContent, didFinalComplete, onCompleteGiven, now, onCompleteCalls,
                   roundAssistantMsg, createdRoundAssistantMsg, roundHadText,
                   assistantToolCallDbMsg, toolApiMsgs, i, assistantToolCallApiMsg,
                   collectedToolCalls, parserVars, nextId, svcVars, abortVars>>

\* DatabaseService.deleteMessage(id).catch(console.error) settles
\* (editor.svelte.ts 398 and 635).
SettleDetached(c, ok) ==
    /\ Suspended
    /\ c \in dbPending
    /\ c.owner = "detached"
    /\ dbPending' = dbPending \ {c}
    /\ dbMessages' = ApplyDb(dbMessages, c, ok, 0)
    /\ UNCHANGED <<storeVars, currentCode, loopVars, now, parserVars, nextId, svcVars, abortVars>>

\* ------------------------------------------------------------------- Init
Rounds == 1..(MAX_TOOL_ROUNDS + 1)

\* given: the caller passes an onComplete callback.
InitTurnWith(given) ==
    /\ activeMessages = <<UserDbMsg, AssistantDbMsg>>
    /\ currentResponse = <<>>
    /\ isLoading = TRUE
    /\ maxContextError = FALSE
    /\ onErrorCalls = 0
    /\ currentCode = <<"h">>
    /\ now = 0
    /\ pc = "loopTop"
    /\ round = 0
    /\ streamedContent = <<>>
    /\ historyTail = <<>>
    /\ didFinalComplete = FALSE
    /\ onCompleteGiven = given
    /\ onCompleteCalls = 0
    /\ roundAssistantMsg = 0
    /\ createdRoundAssistantMsg = FALSE
    /\ roundHadText = FALSE
    /\ assistantToolCallDbMsg = NoDbMsg
    /\ toolApiMsgs = <<>>
    /\ i = 1
    /\ assistantToolCallApiMsg = [r \in Rounds |-> NoApiMsg]
    /\ collectedToolCalls = [r \in Rounds |-> <<>>]
    /\ toolCallBuffer = <<>>
    /\ hasReceivedData = FALSE
    /\ sawToolCalls = FALSE
    /\ fullResponse = <<>>
    /\ dbMessages = {UserDbMsg, AssistantDbMsg}
    /\ dbPending = {}
    /\ nextId = AssistantMsgId + 1
    /\ requests = 0
    /\ outgoing = <<>>
    /\ abortController = "null"
    /\ streamAborted = FALSE
    /\ stopRequested = FALSE

\* sendMessage calls streamChatCompletion(allMessages, assistantMessage, undefined, onError).
InitTurn == InitTurnWith(FALSE)

\* ---------------------------------------------- Spec: one turn, any service
Delta(idx, id, name, args) == [index |-> idx, id |-> id, name |-> name, arguments |-> args]

\* The delta.tool_calls arrays the modelled service may put into a record.
SpecToolCalls ==
    { <<>>,
      << Delta(0, ServiceId(1), <<"get_editor_code">>, <<>>) >>,
      << Delta(1, NoId, <<"set_editor_code">>, <<"{">>) >>,
      << Delta(1, NoId, <<>>, <<"}">>) >> }

SpecChunks == { <<>>, <<"a">> }

FinishReasons == {"none", "stop", "tool_calls"}

Init ==
    /\ InitTurn
    /\ recordsLeft = MaxRecords
    /\ finishSent = "none"
    /\ svcArgs = <<>>
    /\ svcSent = <<>>

\* The service delivers one more data record of its budget; a stream carries
\* at most one finish_reason.
SvcRecord(finish) ==
    /\ recordsLeft > 0
    /\ recordsLeft' = recordsLeft - 1
    /\ finish # "none" => finishSent = "none"
    /\ finishSent' = IF finish # "none" THEN finish ELSE finishSent

SvcData ==
    \E tcs \in SpecToolCalls, content \in SpecChunks, finish \in FinishReasons :
        /\ tcs # <<>> => round <= MaxCallRounds
        /\ SvcRecord(finish)
        /\ StreamData(tcs, content, finish)
        /\ UNCHANGED <<svcArgs, svcSent>>

SvcMalformed ==
    /\ SvcRecord("none")
    /\ StreamMalformed
    /\ UNCHANGED <<svcArgs, svcSent>>

Settle ==
    \E c \in dbPending, ok \in BOOLEAN :
        \/ SettlePlaceholder(c, ok)
        \/ SettleDelete(c, ok)
        \/ SettleToolResult(c, ok)
        \/ SettleToolCallRecord(c, ok)
        \/ SettleRoundText(c, ok)
        \/ SettleDetached(c, ok)

Next ==
    \/ LoopTop
    \/ SvcData
    \/ SvcMalformed
    \/ StreamDone
    \/ StreamEnd
    \/ PostStream
    \/ ExecTool
    \/ Settle

Spec == Init /\ [][Next]_vars

\* ------------------- SpecCap: a service that asks for a tool in every round
\* The single data record of a round: one complete call of get_editor_code
\* with finish_reason "tool_calls"; in the first MaxTextRounds rounds the
\* record may carry text as well.
CapData ==
    \E content \in (IF round <= MaxTextRounds THEN SpecChunks ELSE {<<>>}) :
        /\ finishSent = "none"
        /\ finishSent' = "tool_calls"
        /\ StreamData(<<Delta(0, ServiceId(round), <<"get_editor_code">>, <<>>)>>,
                      content, "tool_calls")
        /\ UNCHANGED <<recordsLeft, svcArgs, svcSent>>

CapDone ==
    /\ finishSent = "tool_calls"
    /\ StreamDone

\* Issue order of the pending calls: a callback's write was issued before the
\* write the main coroutine now awaits.
IssuedFirst(c) ==
    LET rank(o) == CASE o = "onToolCalls" -> 1 [] o = "onComplete" -> 2 [] OTHER -> 3
    IN \A d \in dbPending : rank(c.owner) <= rank(d.owner)

\* The message store completes every call, in issue order.
CapSettle ==
    \E c \in dbPending :
        /\ IssuedFirst(c)
        /\ \/ SettlePlaceholder(c, TRUE)
           \/ SettleDelete(c, TRUE)
           \/ SettleToolResult(c, TRUE)
           \/ SettleToolCallRecord(c, TRUE)
           \/ SettleRoundText(c, TRUE)

NextCap ==
    \/ LoopTop
    \/ CapData
    \/ CapDone
    \/ PostStream
    \/ ExecTool
    \/ CapSettle

SpecCap == Init /\ [][NextCap]_vars

\* ---------------- SpecBuf: one stream whose tool calls arrive in fragments
BufIndexes == 0..MaxIndex

ArgTokens == <<"{", "c", "f", "}">>

\* The argument text of index idx with n tokens; the texts of different
\* indexes differ at every position, and neighbouring tokens differ.
ArgText(idx, n) == [k \in 1..n |-> ArgTokens[((k + idx - 1) % Len(ArgTokens)) + 1]]

\* The argument strings the service may send under index idx.
ArgStrings(idx) == {ArgText(idx, n) : n \in 0..MaxArgLen}

ToolNames == <<<<"get_editor_code">>, <<"set_editor_code">>, <<"replace_in_editor_code">>>>

\* The name of the call the service sends under index idx.
NameOf(idx) == ToolNames[(idx % Len(ToolNames)) + 1]

\* svcArgs: per index, the arguments the service sends and whether the call
\* has a name.  svcSent: per index, how many tokens have been sent; `order`
\* lists the deltas sent, each as <<index, fragment length>>.
InitBuf ==
    /\ InitTurn
    /\ recordsLeft = MaxBufRecords
    /\ finishSent = "none"
    /\ svcArgs \in {f \in [BufIndexes -> [named : BOOLEAN,
                                           args : UNION {ArgStrings(idx) : idx \in BufIndexes}]] :
                        \A idx \in BufIndexes : f[idx].args \in ArgStrings(idx)}
    /\ svcSent = [sent |-> [idx \in BufIndexes |-> 0], order |-> <<>>]

Started(idx) == \E k \in 1..Len(svcSent.order) : svcSent.order[k][1] = idx

\* One record with one tool-call delta: the next n tokens of the arguments of
\* index idx; the first delta of an index carries the id and the name.
BufDelta ==
    \E idx \in BufIndexes, n \in 0..MaxArgLen :
        /\ finishSent = "none"
        /\ recordsLeft > 0
        /\ recordsLeft' = recordsLeft - 1
        /\ svcSent.sent[idx] + n <= Len(svcArgs[idx].args)
        /\ LET from == svcSent.sent[idx]
               frag == SubSeq(svcArgs[idx].args, from + 1, from + n)
               first == ~Started(idx)
               tc == Delta(idx,
                           IF first THEN ServiceId(idx + 1) ELSE NoId,
                           IF first /\ svcArgs[idx].named THEN NameOf(idx) ELSE <<>>,
                           frag)
           IN StreamData(<<tc>>, <<>>, "none")
        /\ svcSent' = [sent |-> [svcSent.sent EXCEPT ![idx] = @ + n],
                       order |-> Append(svcSent.order, <<idx, n>>)]
        /\ UNCHANGED <<finishSent, svcArgs>>

\* The record that carries the finish_reason and an empty delta.
BufFinish ==
    \E finish \in {"stop", "tool_calls"} :
        /\ finishSent = "none"
        /\ finishSent' = finish
        /\ StreamData(<<>>, <<>>, finish)
        /\ UNCHANGED <<recordsLeft, svcArgs, svcSent>>

\* The request of round 1 and its stream, up to the end of handleStreamResponse.
NextBuf ==
    \/ LoopTop
    \/ BufDelta
    \/ BufFinish
    \/ StreamDone
    \/ StreamEnd

SpecBuf == InitBuf /\ [][NextBuf]_vars

\* ------------- SpecCtx: a turn whose service reports what each stream carried
\* svcSent[r]: whether the stream of round r has carried a non-empty content
\* delta, and whether it has carried a tool-call delta.
InitCtx ==
    /\ InitTurn
    /\ recordsLeft = MaxCtxRecords
    /\ finishSent = "none"
    /\ svcArgs = <<>>
    /\ svcSent = [r \in Rounds |-> [content |-> FALSE, calls |-> FALSE]]

CtxData ==
    \E tcs \in SpecToolCalls, content \in SpecChunks, finish \in FinishReasons :
        /\ tcs # <<>> => round <= MaxCallRounds
        /\ SvcRecord(finish)
        /\ StreamData(tcs, content, finish)
        /\ svcSent' = [svcSent EXCEPT ![round] =
                          [content |-> @.content \/ content # <<>>,
                           calls |-> @.calls \/ tcs # <<>>]]
        /\ UNCHANGED svcArgs

NextCtx ==
    \/ LoopTop
    \/ CtxData
    \/ SvcMalformed
    \/ StreamDone
    \/ StreamEnd
    \/ PostStream
    \/ ExecTool
    \/ Settle

SpecCtx == InitCtx /\ [][NextCtx]_vars

\* ------------------------------------------------------------ cancellation
\* savePartialResponseIfNeeded (editor.svelte.ts 699-728) finds something to save.
SavesPartial ==
    /\ TrimNonEmpty(currentResponse)
    /\ activeMessages # <<>>
    /\ activeMessages[Len(activeMessages)].role = "assistant"

SavePartialCall_Raw(owner) ==
    DbCall("update", owner, round, activeMessages[Len(activeMessages)].id,
           [NoDbMsg EXCEPT !.content = remainingContent(currentResponse)],
           currentResponse, NoApiMsg)

\* DatabaseService.updateMessage(lastMessage.id, updateData) as issued by
\* savePartialResponseIfNeeded; draft.content keeps partialThinking.remainingContent.
SavePartialCall(owner) ==
    DbCall("update", owner, round, activeMessages[Len(activeMessages)].id,
           [NoDbMsg EXCEPT !.content = remainingContent(currentResponse)],
           CleanText(currentResponse), NoApiMsg)

\* ChatService.abort() (chat.ts 688-693) on a user's request to stop: the
\* signal of the live controller is aborted, which fails the response being
\* fetched or read, and the controller is dropped.
Abort ==
    /\ abortController' = "null"
    /\ streamAborted' = (streamAborted \/ (abortController = "live" /\ pc = "streaming"))
    /\ stopRequested' = TRUE

\* stopGeneration (editor.svelte.ts 664-669), from the stop control shown while loading.
StopGeneration ==
    /\ Suspended
    /\ isLoading
    /\ ~stopRequested
    /\ Abort
    /\ dbPending' = IF SavesPartial THEN dbPending \cup {SavePartialCall("stopGeneration")}
                    ELSE dbPending
    /\ isLoading' = FALSE
    /\ currentResponse' = <<>>
    /\ UNCHANGED <<activeMessages, maxContextError, onErrorCalls, currentCode, loopVars, now, parserVars,
                   dbMessages, nextId, svcVars>>

\* gracefulStop (editor.svelte.ts 674-684): the fields are reset after the save.
GracefulStop ==
    /\ Suspended
    /\ isLoading
    /\ ~stopRequested
    /\ Abort
    /\ IF SavesPartial
       THEN /\ dbPending' = dbPending \cup {SavePartialCall("gracefulStop")}
            /\ UNCHANGED <<isLoading, currentResponse>>
       ELSE /\ isLoading' = FALSE
            /\ currentResponse' = <<>>
            /\ UNCHANGED dbPending
    /\ UNCHANGED <<activeMessages, maxContextError, onErrorCalls, currentCode, loopVars, now, parserVars,
                   dbMessages, nextId, svcVars>>

\* The rest of savePartialResponseIfNeeded after its await (editor.svelte.ts
\* 719-724), and of gracefulStop after it (682-683).
SettleSavePartial(c, ok) ==
    /\ Suspended
    /\ c \in dbPending
    /\ c.owner \in {"stopGeneration", "gracefulStop"}
    /\ dbPending' = dbPending \ {c}
    /\ dbMessages' = ApplyDb(dbMessages, c, ok, 0)
    /\ activeMessages' =
          SetContent(activeMessages, c.mid,
                     IF ok /\ c.draft.content # <<>> THEN c.draft.content
                     ELSE currentResponse)
    /\ IF c.owner = "gracefulStop"
       THEN isLoading' = FALSE /\ currentResponse' = <<>>
       ELSE UNCHANGED <<isLoading, currentResponse>>
    /\ UNCHANGED <<maxContextError, onErrorCalls, currentCode, loopVars, now, parserVars, nextId, svcVars,
                   abortVars>>

\* reader.read() rejects with the AbortError (chat.ts 353-356): onError takes
\* its abort branch (editor.svelte.ts 378-384), the error leaves
\* streamChatCompletion and reaches the catch of sendMessage (640-644).
ReadAborted ==
    /\ pc = "streaming"
    /\ streamAborted
    /\ isLoading' = FALSE
    /\ currentResponse' = <<>>
    /\ pc' = "threw"
    /\ UNCHANGED <<activeMessages, maxContextError, onErrorCalls, currentCode, round, streamedContent,
                   historyTail, didFinalComplete, onCompleteGiven, now, onCompleteCalls, roundAssistantMsg,
                   createdRoundAssistantMsg, roundHadText, assistantToolCallDbMsg,
                   toolApiMsgs, i, assistantToolCallApiMsg, collectedToolCalls,
                   parserVars, dbVars, svcVars, abortVars>>

\* fetch rejects with the AbortError before the response has arrived
\* (chat.ts 183-186): ChatService.sendMessage returns and no callback runs.
FetchAborted ==
    /\ pc = "streaming"
    /\ streamAborted
    /\ ~hasReceivedData /\ ~sawToolCalls /\ finishSent = "none"
    /\ pc' = "postStream"
    /\ UNCHANGED <<storeVars, currentCode, round, streamedContent,
                   historyTail, didFinalComplete, onCompleteGiven, now, onCompleteCalls, roundAssistantMsg,
                   createdRoundAssistantMsg, roundHadText, assistantToolCallDbMsg,
                   toolApiMsgs, i, assistantToolCallApiMsg, collectedToolCalls,
                   parserVars, dbVars, svcVars, abortVars>>

\* --------------------------- SpecAbort: a turn the user may ask to stop once
AbortToolCalls == { <<>>, << Delta(0, ServiceId(1), <<"get_editor_code">>, <<>>) >> }

AbortChunks == { <<>>, <<"a">>, <<" ">>, <<"<">> }

InitAbort ==
    /\ InitTurn
    /\ recordsLeft = MaxAbortRecords
    /\ finishSent = "none"
    /\ svcArgs = <<>>
    /\ svcSent = <<>>

\* A response whose signal has been aborted delivers nothing more.
AbortData ==
    \E tcs \in AbortToolCalls, content \in AbortChunks, finish \in FinishReasons :
        /\ ~streamAborted
        /\ tcs # <<>> => round <= MaxCallRounds
        /\ SvcRecord(finish)
        /\ StreamData(tcs, content, finish)
        /\ UNCHANGED <<svcArgs, svcSent>>

AbortDone ==
    /\ ~streamAborted
    /\ StreamDone

AbortSettle ==
    \E c \in dbPending, ok \in BOOLEAN :
        \/ SettlePlaceholder(c, ok)
        \/ SettleDelete(c, ok)
        \/ SettleToolResult(c, ok)
        \/ SettleToolCallRecord(c, ok)
        \/ SettleRoundText(c, ok)
        \/ SettleSavePartial(c, ok)

NextAbort ==
    \/ LoopTop
    \/ AbortData
    \/ AbortDone
    \/ ReadAborted
    \/ FetchAborted
    \/ StopGeneration
    \/ GracefulStop
    \/ PostStream
    \/ ExecTool
    \/ AbortSettle

SpecAbort == InitAbort /\ [][NextAbort]_vars

\* ------------- SpecTool: a service that asks for any tool with any arguments
ToolCallNames == Registered \cup { <<"frobnicate">> }

\* Empty, undecodable, an object without fields, with "code", with
\* "find"/"replace", and null.
ToolArgStrings ==
    { <<>>, <<"{">>, <<"{", "}">>, <<"{", "c", "}">>, <<"{", "f", "}">>, <<"n">> }

InitTool ==
    /\ InitTurn
    /\ recordsLeft = MaxToolRecords
    /\ finishSent = "none"
    /\ svcArgs = <<>>
    /\ svcSent = <<>>

\* A data record of round 1: one complete call at the next index.
ToolData ==
    \E name \in ToolCallNames, args \in ToolArgStrings :
        /\ round <= MaxCallRounds
        /\ SvcRecord("none")
        /\ StreamData(<<Delta(MaxToolRecords - recordsLeft,
                              ServiceId(MaxToolRecords - recordsLeft + 1), name, args)>>,
                      <<>>, "none")
        /\ UNCHANGED <<svcArgs, svcSent>>

\* The single data record of a later round: text, with finish_reason "stop".
ToolText ==
    /\ round > MaxCallRounds
    /\ finishSent = "none"
    /\ finishSent' = "stop"
    /\ StreamData(<<>>, <<"a">>, "stop")
    /\ UNCHANGED <<recordsLeft, svcArgs, svcSent>>

ToolDone ==
    /\ \/ round <= MaxCallRounds /\ recordsLeft < MaxToolRecords
       \/ finishSent = "stop"
    /\ StreamDone

NextTool ==
    \/ LoopTop
    \/ ToolData
    \/ ToolText
    \/ ToolDone
    \/ PostStream
    \/ ExecTool
    \/ CapSettle

SpecTool == InitTool /\ [][NextTool]_vars

\* ------------- SpecName: one stream whose tool-call names arrive in fragments
NameFragments == { <<>>, <<"set_">>, <<"editor_code">> }

\* svcSent: per index, the name fragments sent so far, one after the other.
InitName ==
    /\ InitTurn
    /\ recordsLeft = MaxNameRecords
    /\ finishSent = "none"
    /\ svcArgs = <<>>
    /\ svcSent = [idx \in BufIndexes |-> <<>>]

\* One record with one tool-call delta that may carry a piece of the name.
NameDelta ==
    \E idx \in BufIndexes, frag \in NameFragments, args \in {<<>>, <<"{">>} :
        /\ SvcRecord("none")
        /\ StreamData(<<Delta(idx, NoId, frag, args)>>, <<>>, "none")
        /\ svcSent' = [svcSent EXCEPT ![idx] = @ \o frag]
        /\ UNCHANGED svcArgs

NextName ==
    \/ LoopTop
    \/ NameDelta
    \/ StreamDone
    \/ StreamEnd

SpecName == InitName /\ [][NextName]_vars

\* ------- SpecFlush: any service, with a message store that completes every call
NextFlush ==
    \/ LoopTop
    \/ SvcData
    \/ StreamDone
    \/ PostStream
    \/ ExecTool
    \/ CapSettle

SpecFlush == Init /\ [][NextFlush]_vars

\* ------------------ SpecNewTurn: the user edits the question during the turn
\* updateMessage(UserMsgId, newContent) while the turn is loading
\* (editor.svelte.ts 731-798), up to the request of the turn it starts:
\* stopGeneration, the edit, the removal of the messages after the edited one,
\* a new assistant message, and ChatService.sendMessage of the new turn, which
\* installs the controller of its own request (chat.ts 77-79).  The store calls
\* of updateMessage itself are taken to succeed; the loop of the new turn is
\* not followed further.
UpdateMessage ==
    /\ Suspended
    /\ isLoading
    /\ ~stopRequested
    /\ \E k \in 1..Len(activeMessages) : activeMessages[k].id = UserMsgId
    /\ stopRequested' = TRUE
    /\ streamAborted' = (streamAborted \/ (abortController = "live" /\ pc = "streaming"))
    /\ abortController' = "newTurn"
    /\ dbPending' = IF SavesPartial THEN dbPending \cup {SavePartialCall("stopGeneration")}
                    ELSE dbPending
    /\ LET edited == [UserDbMsg EXCEPT !.content = <<"e">>]
           fresh == [AssistantDbMsg EXCEPT !.id = nextId]
       IN /\ activeMessages' = <<edited, fresh>>
          /\ dbMessages' = {edited, fresh}
    /\ nextId' = nextId + 1
    /\ isLoading' = TRUE
    /\ currentResponse' = <<>>
    /\ UNCHANGED <<maxContextError, onErrorCalls, currentCode, loopVars, now, parserVars, svcVars>>

NextNewTurn ==
    \/ LoopTop
    \/ AbortData
    \/ AbortDone
    \/ ReadAborted
    \/ FetchAborted
    \/ UpdateMessage
    \/ PostStream
    \/ ExecTool
    \/ AbortSettle

SpecNewTurn == InitAbort /\ [][NextNewTurn]_vars

\* ------------- SpecErr: a turn whose requests may fail, with either caller
\* `Error: ${error.message}` (editor.svelte.ts 424).
ErrorContent == <<"Error: ">>

\* The generic branch of the onError handed to sendChatCompletion
\* (editor.svelte.ts 414-429).
OnStreamError(o) ==
    [o EXCEPT !.isLoading = FALSE,
              !.currentResponse = <<>>,
              !.activeMessages = IF roundAssistantMsg # 0
                                 THEN SetContent(@, roundAssistantMsg, ErrorContent)
                                 ELSE @,
              !.onErrorCalls = o.onErrorCalls + 1]

\* Nothing of the response has been read.
ResponsePending ==
    /\ ~hasReceivedData /\ ~sawToolCalls /\ finishSent = "none"
    /\ toolCallBuffer = <<>> /\ fullResponse = <<>>

FailsWithCallback_Twice ==
    /\ SetCbState(OnStreamError(OnStreamError(CbState)))
    /\ pc' = "threw"
    /\ UNCHANGED <<currentCode, round, historyTail, didFinalComplete, onCompleteGiven, now,
                   onCompleteCalls, roundAssistantMsg, createdRoundAssistantMsg,
                   assistantToolCallDbMsg, toolApiMsgs, i, parserVars,
                   dbMessages, svcVars, abortVars>>

\* onError(err); throw err: the rejection leaves sendChatCompletion and
\* streamChatCompletion, which has no handler around the await.
FailsWithCallback ==
    /\ SetCbState(OnStreamError(CbState))
    /\ pc' = "threw"
    /\ UNCHANGED <<currentCode, round, historyTail, didFinalComplete, onCompleteGiven, now,
                   onCompleteCalls, roundAssistantMsg, createdRoundAssistantMsg,
                   assistantToolCallDbMsg, toolApiMsgs, i, parserVars,
                   dbMessages, svcVars, abortVars>>

\* fetch rejects, or the response is not ok (chat.ts 135-169, 182-211).
RequestFails ==
    /\ pc = "streaming"
    /\ ResponsePending
    /\ FailsWithCallback

\* reader.read() rejects while the stream is being read (chat.ts 353-356).
ReadFails ==
    /\ pc = "streaming"
    /\ FailsWithCallback

\* The response is ok and has no body (chat.ts 233-237): handleStreamResponse
\* throws before its try, its promise is returned without await (chat.ts
\* 171-178), and the catch of the store's sendMessage ends the turn
\* (editor.svelte.ts 640-661).
NoResponseBody ==
    /\ pc = "streaming"
    /\ ResponsePending
    /\ isLoading' = FALSE
    /\ pc' = "threw"
    /\ UNCHANGED <<activeMessages, currentResponse, maxContextError, onErrorCalls,
                   currentCode, round, streamedContent, historyTail, didFinalComplete,
                   onCompleteGiven, now, onCompleteCalls, roundAssistantMsg,
                   createdRoundAssistantMsg, roundHadText, assistantToolCallDbMsg,
                   toolApiMsgs, i, assistantToolCallApiMsg, collectedToolCalls,
                   parserVars, dbVars, svcVars, abortVars>>

InitErr ==
    /\ \E given \in BOOLEAN : InitTurnWith(given)
    /\ recordsLeft = MaxCtxRecords
    /\ finishSent = "none"
    /\ svcArgs = <<>>
    /\ svcSent = [r \in Rounds |-> [content |-> FALSE, calls |-> FALSE]]

NextErr ==
    \/ LoopTop
    \/ CtxData
    \/ SvcMalformed
    \/ StreamDone
    \/ StreamEnd
    \/ RequestFails
    \/ ReadFails
    \/ NoResponseBody
    \/ PostStream
    \/ ExecTool
    \/ Settle

SpecErr == InitErr /\ [][NextErr]_vars

\* ------------------- SpecTime: a turn of two rounds while the clock advances
\* Date.now() has moved on by a millisecond.
Tick ==
    /\ now < MaxNow
    /\ now' = now + 1
    /\ UNCHANGED <<storeVars, currentCode, loopVars, parserVars, dbVars, svcVars, abortVars>>

\* The two calls round 1 asks for.
TimeCalls == << Delta(0, ServiceId(1), <<"get_editor_code">>, <<>>),
                Delta(1, ServiceId(2), <<"get_editor_code">>, <<>>) >>

\* The one data record of a round: round 1 asks for the two calls, round 2
\* answers with text.
TimeData ==
    /\ finishSent = "none"
    /\ round \in {1, 2}
    /\ finishSent' = IF round = 1 THEN "tool_calls" ELSE "stop"
    /\ IF round = 1 THEN StreamData(TimeCalls, <<>>, "tool_calls")
       ELSE StreamData(<<>>, <<"a">>, "stop")
    /\ UNCHANGED <<recordsLeft, svcArgs, svcSent>>

TimeDone ==
    /\ finishSent # "none"
    /\ StreamDone

NextTime ==
    \/ LoopTop
    \/ TimeData
    \/ TimeDone
    \/ PostStream
    \/ ExecTool
    \/ CapSettle
    \/ Tick

SpecTime == Init /\ [][NextTime]_vars

\* ------- SpecPrefix: a service that asks for a tool in the first rounds, and
\* a message store that settles its calls in any order
\* The single data record of a round that asks for a tool; in the first
\* MaxTextRounds rounds it may carry text as well.
PrefixData ==
    /\ round <= MaxPrefixCallRounds
    /\ CapData

\* [DONE]: after the record of a round with a call, at once in a later round.
PrefixDone ==
    /\ round <= MaxPrefixCallRounds => finishSent = "tool_calls"
    /\ StreamDone

NextPrefix ==
    \/ LoopTop
    \/ PrefixData
    \/ PrefixDone
    \/ PostStream
    \/ ExecTool
    \/ Settle

SpecPrefix == Init /\ [][NextPrefix]_vars

\* ---------------------------------------------------------------- claims
RECURSIVE CountRole(_, _)
CountRole(tail, role) ==
    IF tail = <<>> THEN 0
    ELSE (IF Head(tail).role = role THEN 1 ELSE 0) + CountRole(Tail(tail), role)

RECURSIVE CallsUpTo(_)
\* Number of tool calls collected in rounds 1..r.
CallsUpTo(r) == IF r <= 0 THEN 0 ELSE Len(collectedToolCalls[r]) + CallsUpTo(r - 1)

RoundText == CleanText(streamedContent)
RoundHasText == roundHadText /\ TrimNonEmpty(RoundText)

\* The entries round 1 is said to contribute: the text (if any), the request
\* carrying the calls, one result per call in submission order.
IsRequestFor(m, calls) == m.role = "assistant" /\ m.tool_calls = calls
IsResultFor(m, call) == m.role = "tool" /\ m.tool_call_id = call.id

OrderedTail(tail, text, calls) ==
    LET off == IF text = <<>> THEN 0 ELSE 1
    IN /\ Len(tail) = off + 1 + Len(calls)
       /\ off = 1 => tail[1] = TextMsg(text)
       /\ IsRequestFor(tail[off + 1], calls)
       /\ \A k \in 1..Len(calls) : IsResultFor(tail[off + 1 + k], calls[k])

\* C1 (as claimed): when round 1 has run its tools and every message-store
\* call it issued has settled, historyTail is [assistant text (if the round
\* had non-empty text), assistant tool-call request, tool results in
\* call-submission order].
C1_TailOrder ==
    (pc = "loopTop" /\ round = 1 /\ collectedToolCalls[1] # <<>> /\ dbPending = {})
        => OrderedTail(historyTail, IF RoundHasText THEN RoundText ELSE <<>>,
                       collectedToolCalls[1])

\* C5 (as claimed): when the turn has ended, every collected tool call has
\* exactly one tool-result message in historyTail.
C5_OneResultPerCall ==
    pc \in {"returned", "threw"} => CountRole(historyTail, "tool") = CallsUpTo(round)

\* C10 (as claimed): a completion request is never sent while a message-store
\* write started in an earlier round is still pending.
C10_WritesBeforeNextRequest ==
    [][requests' > requests => \A c \in dbPending' : c.round >= round']_vars

\* The tool-result messages of the turn so far: those already in historyTail
\* and those of the running tool loop.
ToolResults ==
    {historyTail[k] : k \in {j \in 1..Len(historyTail) : historyTail[j].role = "tool"}}
        \cup {toolApiMsgs[k] : k \in 1..Len(toolApiMsgs)}

\* The ids of the tool calls collected in rounds 1..r.
CollectedIds(r) ==
    UNION {{collectedToolCalls[q][k].id : k \in 1..Len(collectedToolCalls[q])} : q \in 1..r}

CollectedIdsNow == CollectedIds(round)

\* C4: every tool-result message of the turn carries a tool_call_id that is
\* the id of a tool call collected in the same or an earlier round, whether
\* the service supplied that id or it was generated as a fallback.
C4_ResultIdMatchesCall ==
    \A m \in ToolResults : m.tool_call_id # NoId /\ m.tool_call_id \in CollectedIdsNow

\* C4 witness: round 1 has ended with one result linked to a service id and
\* one linked to a generated id.
C4_Witness ==
    /\ pc = "loopTop"
    /\ \E m \in ToolResults : m.tool_call_id[1] = "svc"
    /\ \E m \in ToolResults : m.tool_call_id[1] = "gen"

\* C9: when the request of the next round is sent after a round whose stream
\* carried finish_reason "tool_calls" and no content, every tool call
\* collected so far has its result in historyTail, i.e. has been executed.
C9_ToolsBeforeNextRequest ==
    [][(requests' > requests /\ finishSent = "tool_calls" /\ fullResponse = <<>>)
            => CountRole(historyTail', "tool") = CallsUpTo(requests)]_vars

\* C9 witness: a round with two calls, finish_reason "tool_calls" and no
\* content has run both tools and is about to send the next request.
C9_Witness ==
    /\ pc = "awaitPlaceholder"
    /\ round = 2
    /\ finishSent = "tool_calls"
    /\ fullResponse = <<>>
    /\ Len(collectedToolCalls[1]) = 2
    /\ CountRole(historyTail, "tool") = 2

\* C2: with a service that asks for a tool in every round, at most
\* MAX_TOOL_ROUNDS requests are ever sent, and when streamChatCompletion
\* returns exactly MAX_TOOL_ROUNDS have been sent.
C2_ExactlyTenRequests ==
    /\ requests <= MAX_TOOL_ROUNDS
    /\ pc = "returned" => requests = MAX_TOOL_ROUNDS

\* C2 witness: the loop has stopped at the cap after the tenth request.
C2_Witness ==
    /\ pc = "returned"
    /\ round = MAX_TOOL_ROUNDS + 1
    /\ requests = MAX_TOOL_ROUNDS
    /\ CallsUpTo(MAX_TOOL_ROUNDS) = MAX_TOOL_ROUNDS

\* Stored rows of a role.
Stored(role) == {m \in dbMessages : m.role = role}

\* C3 (as claimed): when the loop stops at the cap, isLoading is false,
\* currentResponse is empty, and the tool-call records and the tool results of
\* the ten rounds are all still stored.
C3_CapFinishes ==
    (pc = "returned" /\ CapReached(round))
        => /\ ~isLoading
           /\ currentResponse = <<>>
           /\ Cardinality(Stored("tool")) = MAX_TOOL_ROUNDS

\* The arguments sent so far under index idx, as one string.
ArgsSent(idx) == SubSeq(svcArgs[idx].args, 1, svcSent.sent[idx])

\* The index whose call carries the name.
IndexOfName(name) == CHOOSE idx \in BufIndexes : NameOf(idx) = name

\* Some delta of index b arrived between two non-empty fragments of index a.
Interleaved(a, b) ==
    \E x, y, z \in 1..Len(svcSent.order) :
        /\ x < y /\ y < z
        /\ svcSent.order[x][1] = a /\ svcSent.order[x][2] > 0
        /\ svcSent.order[y][1] = b
        /\ svcSent.order[z][1] = a /\ svcSent.order[z][2] > 0

\* C6: the arguments of every buffered and of every flushed call are the
\* fragments sent under its index, concatenated in arrival order, wherever the
\* fragment boundaries fell and whatever arrived for other indexes in between.
C6_FragmentsConcatenate ==
    /\ \A k \in 1..Len(toolCallBuffer) :
          toolCallBuffer[k].arguments = ArgsSent(toolCallBuffer[k].index)
    /\ \A k \in 1..Len(collectedToolCalls[1]) :
          collectedToolCalls[1][k].arguments =
              ArgsSent(IndexOfName(collectedToolCalls[1][k].name))

\* C6 witness: the call of index 0 was flushed with all its MaxArgLen tokens,
\* which arrived in several fragments with a delta of index 1 in between.
C6_Witness ==
    /\ pc = "postStream"
    /\ Interleaved(0, 1)
    /\ \E k \in 1..Len(collectedToolCalls[1]) :
          /\ collectedToolCalls[1][k].name = NameOf(0)
          /\ collectedToolCalls[1][k].arguments = ArgText(0, MaxArgLen)

\* C7: the flush at the end of the stream, after the flush on finish_reason
\* "tool_calls" with no delta in between, delivers no call and leaves the
\* buffer empty.
C7_SecondFlushDeliversNothing ==
    [][(pc = "streaming" /\ pc' = "postStream" /\ finishSent = "tool_calls")
            => /\ collectedToolCalls' = collectedToolCalls
               /\ assistantToolCallApiMsg' = assistantToolCallApiMsg
               /\ toolCallBuffer' = <<>>]_vars

\* C7 witness: the stream has ended after finish_reason "tool_calls" flushed
\* two calls; each has been delivered once.
C7_Witness ==
    /\ pc = "postStream"
    /\ finishSent = "tool_calls"
    /\ Len(collectedToolCalls[1]) = 2
    /\ toolCallBuffer = <<>>

RECURSIVE NamedFrom(_)
\* The names of the started, named calls of the indexes idx..MaxIndex, in
\* ascending order of index.
NamedFrom(idx) ==
    IF idx > MaxIndex THEN <<>>
    ELSE (IF Started(idx) /\ svcArgs[idx].named THEN <<NameOf(idx)>> ELSE <<>>)
            \o NamedFrom(idx + 1)

\* C8: once the buffer has been flushed, the calls delivered are exactly the
\* named calls in ascending order of index, whatever the arrival order, the
\* calls without a name are left out, and the buffer is empty.
C8_FlushSortedNamed ==
    (pc = "postStream" \/ finishSent = "tool_calls")
        => /\ [k \in 1..Len(collectedToolCalls[1]) |-> collectedToolCalls[1][k].name]
                = NamedFrom(0)
           /\ toolCallBuffer = <<>>

\* C8 witness: index 1 arrived first, index 0 in between its fragments, and
\* the flush delivered exactly two calls, index 0 before index 1.
C8_Witness ==
    /\ pc = "postStream"
    /\ svcSent.order # <<>>
    /\ svcSent.order[1][1] = 1
    /\ Interleaved(1, 0)
    /\ Len(collectedToolCalls[1]) = 2
    /\ collectedToolCalls[1][1].name = NameOf(0)
    /\ collectedToolCalls[1][2].name = NameOf(1)

\* The ids of the messages in the in-memory list, and of the stored rows.
ActiveIds == {activeMessages[k].id : k \in 1..Len(activeMessages)}
StoredIds == {m.id : m \in dbMessages}

\* C11 (as claimed): after a context error the placeholder assistant message
\* of the round is in the in-memory list no more and, once the store calls
\* have settled, in the message store no more, in round 1 as in later rounds.
C11_PlaceholderDeleted ==
    maxContextError
        => /\ roundAssistantMsg \notin ActiveIds
           /\ dbPending = {} => roundAssistantMsg \notin StoredIds

\* C12: when a stream ends, with or without the end marker, the round is a
\* context error exactly if the stream carried no non-empty content delta and
\* no tool-call delta.
C12_ContextErrorIff ==
    [][(pc = "streaming" /\ pc' = "postStream")
            => (maxContextError' <=> (~svcSent[round].content /\ ~svcSent[round].calls))]_vars

\* C12 witness: the stream of round 1 has ended after a tool-call delta that
\* never got a name and no content: no call was collected and the round is
\* not a context error.
C12_Witness ==
    /\ pc = "postStream"
    /\ round = 1
    /\ svcSent[1].calls
    /\ ~svcSent[1].content
    /\ collectedToolCalls[1] = <<>>
    /\ ~maxContextError

\* C13 (as claimed): when a turn has ended in a context error, no message of
\* the turn is left in the in-memory list nor, once the store calls have
\* settled, in the message store; both were empty before the turn.
C13_TurnRolledBack ==
    (maxContextError /\ pc = "returned")
        => /\ activeMessages = <<>>
           /\ dbPending = {} => dbMessages = {}


\* The user stops the turn while a response is being read.
CancelsMidStream == ~stopRequested /\ stopRequested' /\ pc = "streaming"

\* The turn was stopped while the response of this round was being read.
CancelledMidStream == streamAborted

\* The one call the step adds to the message store, if it adds exactly one.
SavesExactly(text) ==
    \E c \in dbPending' :
        /\ dbPending' = dbPending \cup {c}
        /\ c \notin dbPending
        /\ c.op = "update"
        /\ c.text = text

\* C14 as stated: stopping a turn in mid-stream after a non-empty partial text
\* has been accumulated issues exactly one update of the message store, whose
\* content is that text, and no context error is raised.
C14_Original ==
    [][/\ (CancelsMidStream /\ streamedContent # <<>>)
            => SavesExactly(streamedContent) /\ ~maxContextError'
       /\ (CancelledMidStream /\ streamedContent # <<>>)
            => dbPending' \subseteq dbPending /\ ~maxContextError']_vars

\* C14, amended: stopping a turn in mid-stream after a partial text that is
\* not only whitespace issues exactly one update of the message store, whose
\* content is the text outside the
\* reasoning segments (the whole text when nothing is outside them); no other
\* call follows and no context error is raised.
C14_PartialSavedOnce ==
    [][/\ (CancelsMidStream /\ TrimNonEmpty(streamedContent))
            => SavesExactly(CleanText(streamedContent)) /\ ~maxContextError'
       /\ (CancelledMidStream /\ TrimNonEmpty(streamedContent))
            => dbPending' \subseteq dbPending /\ ~maxContextError']_vars

C14_Witness ==
    /\ CancelledMidStream
    /\ streamedContent = <<"a", "<">>
    /\ pc = "threw"
    /\ \E m \in dbMessages : m.id = roundAssistantMsg /\ m.content = <<"a">>

\* A tool call is executed by this step.
ExecutesTool == pc = "execTool" /\ pc' # "execTool"

\* C15: once the user has asked to stop, at whichever suspension point, the
\* turn sends no further completion request and executes no further tool call.
C15_AbortAbsorbing ==
    [][stopRequested => (requests' = requests /\ ~ExecutesTool)]_vars

\* The turn has been stopped and no request has been sent since: the loop is
\* still in the round that was stopped.
InAbortedRound == stopRequested /\ abortController = "null"

\* C16: once the user has asked to stop, no call to the message store is issued
\* for the stopped round any more (the save of the partial text is issued by
\* the stop itself).
C16_NoWritesAfterAbort ==
    [][InAbortedRound => \A c \in dbPending' \ dbPending : c.round # round]_vars

\* The call the tool loop is at, and the result the step hands back for it.
CurrentCall == collectedToolCalls[round][i]

ResultContent == toolApiMsgs'[Len(toolApiMsgs')].content

\* The call was executed and its result returned to the tool loop.
ReturnsResult == pc' = "awaitToolPersist" /\ Len(toolApiMsgs') = Len(toolApiMsgs) + 1

\* JSON.stringify({ error: `Unknown tool: ${name}` })
UnknownToolError(name) == <<"{", "error:Unknown tool: ">> \o name \o <<"}">>

\* JSON.stringify({ error: 'Invalid JSON arguments', raw: argStr })
InvalidArgumentsError(argStr) ==
    <<"{", "error:Invalid JSON arguments", "raw:">> \o argStr \o <<"}">>

Undecodable(argStr) == argStr # <<>> /\ ~ParsesAsJson(argStr)

\* The turn has ended.
Terminated == pc \in {"returned", "threw"}

C18_InvalidArguments ==
    [][(ExecutesTool /\ Undecodable(CurrentCall.arguments))
            => /\ ReturnsResult
               /\ ResultContent = InvalidArgumentsError(CurrentCall.arguments)
               /\ currentCode' = currentCode]_vars

C18_Witness ==
    /\ pc = "awaitToolPersist"
    /\ CurrentCall.name = <<"set_editor_code">>
    /\ CurrentCall.arguments = <<"{">>
    /\ toolApiMsgs[Len(toolApiMsgs)].content = InvalidArgumentsError(<<"{">>)
    /\ currentCode = <<"h">>

\* C19: a tool implementation that throws yields an error result; executing a
\* call never ends the turn with an exception.
C19_ToolErrorCaught ==
    [][ExecutesTool => ReturnsResult]_vars

\* The positions of the calls collected so far in the turn: round and place.
CollectedAt == {p \in Rounds \X (1..(MaxRecords + 1)) : p[2] <= Len(collectedToolCalls[p[1]])}

IdAt(p) == collectedToolCalls[p[1]][p[2]].id

\* C20: the ids of the tool calls collected during one turn, over all its
\* rounds, are pairwise distinct, whatever ids the service supplies or omits.
C20_IdsDistinct ==
    \A p \in CollectedAt, q \in CollectedAt : p # q => IdAt(p) # IdAt(q)

\* The round in progress has reached the tool loop or the end of the turn:
\* its cleanup of the placeholder, if any, has been done.
RoundCleanedUp == pc \in {"execTool", "awaitToolPersist", "returned"}

\* C21: in every round, round 1 included, a round that ends without non-empty
\* text leaves its placeholder assistant message neither in the message list
\* nor, once the store has settled, in the message store.
C21_EmptyPlaceholderDiscarded ==
    (RoundCleanedUp /\ ~maxContextError /\ ~RoundHasText)
        => /\ roundAssistantMsg \notin ActiveIds
           /\ dbPending = {} => roundAssistantMsg \notin StoredIds

\* The stream of the round in progress ends in this step.
StreamEnds == pc = "streaming" /\ pc' = "postStream"

\* The service has sent content or a tool-call delta in the round in progress.
SomethingSent == svcSent[round].content \/ svcSent[round].calls

\* The buffered calls that have a name.
NamedBuffered == {k \in 1..Len(toolCallBuffer) : toolCallBuffer[k].name # <<>>}

\* C26: when the transport ends, with or without the end marker, after content
\* or a tool-call delta was seen, the buffered calls are flushed (each named
\* one is collected, the buffer is left empty) and completion is signalled
\* with the accumulated text: the parser has resolved without a context error.
C26_LenientCompletion ==
    [][(StreamEnds /\ SomethingSent)
            => /\ toolCallBuffer' = <<>>
               /\ Len(collectedToolCalls'[round]) =
                      Len(collectedToolCalls[round]) + Cardinality(NamedBuffered)
               /\ fullResponse' = streamedContent'
               /\ roundHadText
                      => \E c \in dbPending' :
                             /\ c.owner = "onComplete"
                             /\ c.round = round
                             /\ c.text = CleanText(fullResponse')
               /\ ~maxContextError']_vars

\* C26 witness: the stream has ended without a finish_reason after text and a
\* call that was still in the buffer; the call is collected and the text is
\* on its way to the store.
C26_Witness ==
    /\ pc = "postStream"
    /\ round = 1
    /\ finishSent = "none"
    /\ fullResponse = <<"a">>
    /\ Len(collectedToolCalls[1]) = 1
    /\ toolCallBuffer = <<>>
    /\ \E c \in dbPending : c.owner = "onComplete" /\ c.text = <<"a">>

C28_NameFragmentsConcatenate ==
    /\ \A k \in 1..Len(toolCallBuffer) :
          toolCallBuffer[k].name = svcSent[toolCallBuffer[k].index]
    /\ \A k \in 1..Len(collectedToolCalls[1]) :
          \E idx \in BufIndexes : collectedToolCalls[1][k].name = svcSent[idx]

\* The stored records that request tool calls, and the places of historyTail
\* that do.
CallRecords == {m \in dbMessages : m.role = "assistant" /\ m.toolCalls # <<>>}

CallRequestsAt == {k \in 1..Len(historyTail) :
                       historyTail[k].role = "assistant" /\ historyTail[k].tool_calls # <<>>}

\* Round 1 has collected calls and is over, and the store has settled.
RoundOneOver ==
    /\ round = 1
    /\ pc = "loopTop"
    /\ collectedToolCalls[1] # <<>>
    /\ dbPending = {}

\* C29: a round in which calls were collected leaves exactly one stored
\* tool-call record and exactly one request message in historyTail, and each
\* carries all the calls of the round, also when calls were flushed twice.
C29_OneRequestRecord ==
    RoundOneOver
        => /\ \E m \in CallRecords :
                 CallRecords = {m} /\ m.toolCalls = collectedToolCalls[1]
           /\ \E k \in CallRequestsAt :
                 CallRequestsAt = {k} /\ historyTail[k].tool_calls = collectedToolCalls[1]

\* The step is the rejection of the addMessage call c: the call is gone and
\* the store has no new message.
AddRejected(c) ==
    /\ c.op = "add"
    /\ dbPending' = dbPending \ {c}
    /\ dbMessages' = dbMessages

\* The placeholder of a round >= 2, whose creation the round cannot do without.
IsPlaceholderAdd(c) == c.op = "add" /\ c.owner = "main" /\ c.draft.role = "assistant"

FinishPathRuns == pc \in {"postStream", "awaitFinishDelete"} /\ pc' = "returned"

\* C23: isLoading and currentResponse are reset exactly once per termination:
\* the finish path never resets them after the error callback has reset them
\* already, and a turn that has returned has had them reset.
C23_ResetExactlyOnce ==
    [][/\ FinishPathRuns => isLoading
       /\ pc' = "returned" => (~isLoading' /\ currentResponse' = <<>>)]_vars

\* The controller ChatService holds is the one of the new turn's request.
NewTurnRequestLive == abortController = "newTurn"

\* C25: once a new turn has been started during an earlier one, the earlier
\* turn sends no request, executes no tool and leaves the controller of the
\* new turn's request alone.
C25_OneActiveLoop ==
    [][NewTurnRequestLive
            => /\ requests' = requests
               /\ ~ExecutesTool
               /\ abortController' = "newTurn"]_vars

\* The round ends with no collected tool call and the loop goes on from there.
EndsWithoutCalls == pc = "postStream" /\ collectedToolCalls[round] = <<>> /\ pc' # pc

\* C22: a round that ends with zero collected tool calls takes the finish
\* path, on which the onComplete of the caller is invoked for the first and
\* only time and streamChatCompletion returns; over the turn onComplete is
\* never invoked twice.
C22_CompletionOnce ==
    [][/\ EndsWithoutCalls => pc' \in {"returned", "awaitFinishDelete"}
       /\ pc = "awaitFinishDelete" /\ pc' # pc => pc' = "returned"
       /\ FinishPathRuns /\ onCompleteGiven
            => onCompleteCalls = 0 /\ onCompleteCalls' = 1 /\ didFinalComplete'
       /\ onCompleteCalls' <= 1]_vars

C22_Witness == pc = "returned" /\ onCompleteCalls = 1 /\ requests = 2

\* A request of the turn fails in transport.
TransportError == RequestFails \/ ReadFails \/ NoResponseBody

\* The round is classified as a context error.
ContextErrorRaised == pc = "streaming" /\ ~maxContextError /\ maxContextError'

\* The turn has met a transport or context error.
Errored == pc = "threw" \/ maxContextError

\* C24: a transport or context error invokes the onError of the caller and
\* ends the turn: afterwards no request is sent and no tool is executed.
C24_ErrorsSurfaceAndEnd ==
    [][/\ TransportError \/ ContextErrorRaised => onErrorCalls' = onErrorCalls + 1
       /\ TransportError => pc' = "threw"
       /\ Errored => requests' = requests /\ ~ExecutesTool]_vars

\* A completion request is sent in this step.
SendsRequest == requests' > requests

\* The entries of the tail a list of API messages ends with, after allMessages.
TailOf(msgs) == SubSeq(msgs, Len(allMessages) + 1, Len(msgs))

Holds(msgs, m) == \E k \in 1..Len(msgs) : msgs[k] = m

\* Round r has produced all it contributes to historyTail: the request that
\* carries its calls, a result for every call, and no write of one of its
\* callbacks is still to add an entry.
RoundComplete(tail, r, pending) ==
    /\ assistantToolCallApiMsg[r] # NoApiMsg => Holds(tail, assistantToolCallApiMsg[r])
    /\ \A j \in 1..Len(collectedToolCalls[r]) :
          \E k \in 1..Len(tail) : IsResultFor(tail[k], collectedToolCalls[r][j])
    /\ \A c \in pending : c.owner \in {"onToolCalls", "onComplete"} => c.round # r

\* C31: the message list of every request is allMessages followed by the
\* whole historyTail, and that tail holds everything rounds 1..n-1 produce.
C31_OutgoingComplete ==
    [][SendsRequest =>
         /\ SubSeq(outgoing', 1, Len(allMessages)) = allMessages
         /\ TailOf(outgoing') = historyTail'
         /\ \A r \in 1..(round' - 1) : RoundComplete(TailOf(outgoing'), r, dbPending')]_vars

\* The write of a tool result the tool loop is waiting for.
ResultWrites == {c \in dbPending : c.owner = "main" /\ c.op = "add" /\ c.draft.role = "tool"}

\* C32: the tool loop executes the calls of the round one after the other in
\* submission order: when call i is executed, calls 1..i-1 have returned
\* their results, in that order, the write of every earlier result has
\* settled, and the result that is added belongs to call i.
C32_ToolsSequential ==
    [][ExecutesTool =>
         /\ i = Len(toolApiMsgs) + 1
         /\ \A k \in 1..(i - 1) : IsResultFor(toolApiMsgs[k], collectedToolCalls[round][k])
         /\ ResultWrites = {}
         /\ ReturnsResult => /\ IsResultFor(toolApiMsgs'[i], CurrentCall)
                             /\ Cardinality(ResultWrites') = 1]_vars

\* C32 witness: the second call of a round has been executed after the first.
C32_Witness ==
    /\ pc = "awaitToolPersist"
    /\ i = 2
    /\ Len(toolApiMsgs) = 2
    /\ toolApiMsgs[1].tool_call_id # toolApiMsgs[2].tool_call_id

\* The stored results of the calls the stored request q carries.
ResultsOf(q) ==
    {m \in dbMessages : m.role = "tool" /\
        \E k \in 1..Len(q.toolCalls) : q.toolCalls[k].id = m.toolCallId}

\* Position, in the request q, of the call the result m answers.
CallPosition(q, m) == CHOOSE k \in 1..Len(q.toolCalls) : q.toolCalls[k].id = m.toolCallId

\* The messages stored during the turn.
CreatedInTurn == {m \in dbMessages : m.id > AssistantMsgId}

\* C33: the stored results of a round have timestamps above that of the
\* round's tool-call request and rising in submission order, and no other
\* message of the turn has a timestamp between the request's and a result's.
C33_ResultTimestamps ==
    \A q \in CallRecords : \A m \in ResultsOf(q) :
        /\ m.timestamp > q.timestamp
        /\ \A m2 \in ResultsOf(q) :
              CallPosition(q, m) < CallPosition(q, m2) => m.timestamp < m2.timestamp
        /\ \A x \in CreatedInTurn \ ({q} \cup ResultsOf(q)) :
              ~(q.timestamp < x.timestamp /\ x.timestamp < m.timestamp)

\* A content event: onChunk has appended a chunk to the text of the round.
ContentEvent == pc = "streaming" /\ pc' = "streaming" /\ streamedContent' # streamedContent

\* C34: after every content event the round's message shows the text of the
\* round outside its reasoning segments, and the round counts as having text
\* only if that body is more than whitespace.
C34_VisibleContentIsBody ==
    [][ContentEvent =>
         /\ \A k \in 1..Len(activeMessages') :
               activeMessages'[k].id = roundAssistantMsg
                   => activeMessages'[k].content = remainingContent(streamedContent')
         /\ roundHadText' => TrimNonEmpty(remainingContent(streamedContent'))]_vars

\* The message carries a call with this id.
RequestsCall(m, id) ==
    m.role = "assistant" /\ \E c \in 1..Len(m.tool_calls) : m.tool_calls[c].id = id

\* C35: in the message list of every request, each tool-result message comes
\* after an assistant message that requests a call with the result's id.
C35_ResultsFollowRequest ==
    \A k \in 1..Len(outgoing) :
        outgoing[k].role = "tool"
            => \E j \in 1..(k - 1) : RequestsCall(outgoing[j], outgoing[k].tool_call_id)

\* The loop of the turn has a request in flight, is executing tools, or is
\* on its way to the request of a further round.
TurnActive ==
    \/ pc = "streaming" /\ ~streamAborted
    \/ pc \in {"execTool", "awaitToolPersist", "awaitDelete", "awaitPlaceholder"}
    \/ pc = "loopTop" /\ ~CapReached(round + 1)

\* updateMessage has stopped the earlier turn and started the turn of the
\* edited message; that turn lasts for the rest of the behaviour.
NewTurnStarted == stopRequested

\* C36: isLoading is true while a turn is active, also after the turn before
\* it has been cancelled.
C36_LoadingWhileActive == (TurnActive \/ NewTurnStarted) => isLoading

\* The updates savePartialResponseIfNeeded issues in this step.
PartialSaves ==
    {c \in dbPending' \ dbPending : c.owner \in {"stopGeneration", "gracefulStop"}}

\* The text of the current round, raw or without its reasoning segments.
RoundTexts == {streamedContent, remainingContent(streamedContent)}

\* C37: the save on cancellation writes text of the round being cancelled
\* into the assistant text message of that round.
C37_SaveTargetsRoundText ==
    [][\A c \in PartialSaves : c.text \in RoundTexts /\ c.mid = roundAssistantMsg]_vars

RequestFailed == pc = "streaming" /\ pc' = "threw"

\* C39: a failed request invokes the error callback at most once.
C39_ErrorCallbackOnce ==
    [][RequestFailed => onErrorCalls' <= onErrorCalls + 1 /\ onErrorCalls' <= 1]_vars

\* C39 witness: a read error in the middle of a stream has been reported.
C39_Witness == pc = "threw" /\ onErrorCalls = 1 /\ hasReceivedData /\ ~maxContextError

\* a is the beginning of b.
IsPrefix(a, b) == Len(a) <= Len(b) /\ SubSeq(b, 1, Len(a)) = a

\* C40: the message list of each request begins with the message list of the
\* request before it.
C40_OutgoingOnlyGrows ==
    [][SendsRequest => IsPrefix(outgoing, outgoing')]_vars

====
